---- MODULE Spec2Model ----
(***************************************************************************)
(* Rookie fantasy-points predictor: the offline training run               *)
(* (train_model.py) and the prediction service (app.py), joined by the     *)
(* artifact file models/model.joblib.                                      *)
(*                                                                         *)
(* Numbers that the program keeps as floats are integers here: targets and *)
(* predictions are in thousandths of a fantasy point, rounded predictions  *)
(* in hundredths.                                                          *)
(***************************************************************************)
EXTENDS Integers, Sequences, FiniteSets, TLC

\* ------------------------------------------------------------------ bounds
\* most rows a data file holds
MaxRows == 5
\* longest batch sent to /predict/batch
MaxBatch == 2

\* ------------------------------------------------------- generic helpers
Range(s) == {s[i] : i \in 1..Len(s)}

SeqSum(s) ==
    LET RECURSIVE upto(_)
        upto(i) == IF i = 0 THEN 0 ELSE s[i] + upto(i - 1)
    IN  upto(Len(s))

Abs(x) == IF x < 0 THEN -x ELSE x

\* a raised exception, and a returned value
Raise(e) == [ok |-> FALSE, error |-> e]
Return(v) == [ok |-> TRUE, value |-> v]

\* ------------------------------------------------- app.py: feature contract
CATEGORICAL_COLS == <<"position", "team", "C_conference", "C_team">>

NUMERIC_COLS ==
    <<"C_season", "C_passing_TD", "C_passing_YDS", "C_passing_INT",
      "C_rushing_TD", "C_rushing_YDS", "C_receiving_REC", "C_receiving_TD",
      "C_receiving_YDS", "C_fumbles_LOST", "C_passing_ATT", "C_passing_COMPLETIONS",
      "C_passing_PCT", "C_passing_YPA", "C_rushing_CAR", "C_rushing_YPC",
      "C_rushing_LONG", "C_receiving_YPR", "C_receiving_LONG", "C_fumbles_FUM",
      "C_conference_strength">>

ALL_FEATURE_COLS == CATEGORICAL_COLS \o NUMERIC_COLS

\* ------------------------------------------- train_model.py: its constants
TARGET == "R_fantasy_points_halfppr_tep"

train_CATEGORICAL_COLS == <<"position", "team", "C_conference", "C_team">>

COLUMNS_TO_DROP ==
    <<"player_name", "player_id_x", "player_id_y",
      "draft_year", "draft_round", "draft_pick_overall", "age_on_draft_day">>

\* cross_val_score(..., cv=5, ...)
cv == 5

\* --------------------------------------------------- the data file on disk
\* A table is [columns |-> sequence of names, index |-> sequence of row ids];
\* the cell of row id r under column c is Cell(r, c).

\* one rookie-season result column besides the target
OTHER_ROOKIE_COL == "R_receiving_YDS"
\* a college/context column outside the feature contract
EXTRA_COL == "C_height"

\* col.startswith("R_"), over the column names that occur
startswith_R_(col) == col \in {TARGET, OTHER_ROOKIE_COL}

\* the table the feature contract was written against
MasterColumns ==
    <<"player_name", "position", "team", "player_id_x", "draft_year",
      "draft_round", "draft_pick_overall", "age_on_draft_day",
      "C_conference", "C_team">>
    \o NUMERIC_COLS \o <<OTHER_ROOKIE_COL, TARGET, "player_id_y">>

\* the list s without the name c
Without(s, c) == SelectSeq(s, LAMBDA x : x # c)

\* the list s with its entries a and b exchanged
Swapped(s, a, b) ==
    [i \in 1..Len(s) |-> IF s[i] = a THEN b ELSE IF s[i] = b THEN a ELSE s[i]]

\* the column layouts a data file may have
Layouts ==
    {MasterColumns,
     MasterColumns \o <<EXTRA_COL>>,
     Swapped(MasterColumns, "C_season", "C_passing_TD")}
    \cup {Without(MasterColumns, c) :
            c \in {TARGET, "player_id_y", "team", "C_fumbles_FUM"}}

\* the row counts a data file may have: one too few for the folds, and enough
RowCounts == {cv - 1, MaxRows}

\* what pd.read_csv finds at DATA_PATH: no file, or a table
NoFile == [kind |-> "absent"]

DataFiles ==
    {NoFile} \cup
    {[kind |-> "table", columns |-> l, index |-> [i \in 1..n |-> i]] :
        l \in Layouts, n \in RowCounts}

\* the values of the table, row by row
Cell(r, c) ==
    CASE c = "position" -> IF r % 2 = 0 THEN "QB" ELSE "WR"
      [] c = "team" -> IF r % 3 = 0 THEN "TEN" ELSE "CHI"
      [] c = "C_conference" -> IF r % 2 = 0 THEN "ACC" ELSE "SEC"
      [] c = "C_team" -> IF r % 3 = 1 THEN "Miami (FL)" ELSE "Alabama"
      [] c = TARGET -> 1000 * (r % 4) + 250 * r
      [] c = "C_season" -> 2015 + r
      [] OTHER -> 3 * r

\* ----------------------------------- train_model.py: load_and_prepare_data
\* df.drop(columns=names): KeyError when a name is no column of df
drop(df, names) ==
    IF ~(Range(names) \subseteq Range(df.columns))
    THEN Raise("KeyError")
    ELSE Return([df EXCEPT !.columns =
                    SelectSeq(df.columns, LAMBDA c : c \notin Range(names))])

load_and_prepare_data(file) ==
    IF file.kind = "absent" THEN Raise("FileNotFoundError")
    ELSE
      LET columns_to_keep ==
              SelectSeq(file.columns, LAMBDA col : ~startswith_R_(col) \/ col = TARGET)
          kept == [columns |-> columns_to_keep, index |-> file.index]
          dropped == drop(kept, COLUMNS_TO_DROP)
      IN  IF ~dropped.ok THEN dropped
          ELSE LET X == drop(dropped.value, <<TARGET>>)
               IN  IF ~X.ok THEN X
                   ELSE Return([X |-> X.value,
                                y |-> [i \in 1..Len(file.index) |->
                                          Cell(file.index[i], TARGET)]])

\* --------------------------------------- train_model.py: build_pipeline
\* ColumnTransformer(StandardScaler on numeric_cols, OneHotEncoder(drop="first",
\* handle_unknown="ignore") on CATEGORICAL_COLS) followed by the regressor
build_pipeline(numeric_cols) ==
    [kind |-> "pipeline", fitted |-> FALSE,
     num |-> numeric_cols, cat |-> train_CATEGORICAL_COLS]

\* every category value that occurs, in the order sorting puts strings in
CategoryOrder ==
    <<"ACC", "Alabama", "CHI", "DAL", "K", "Miami (FL)", "QB", "SEC", "TEN", "WR">>

\* OneHotEncoder.fit: the sorted distinct values of one column
categories_of(values) == SelectSeq(CategoryOrder, LAMBDA v : v \in values)

\* OneHotEncoder.transform with drop="first", handle_unknown="ignore": one
\* indicator per category but the first; a value not among the categories sets none
one_hot(categories, v) ==
    [k \in 1..(Len(categories) - 1) |-> IF categories[k + 1] = v THEN 1 ELSE 0]

\* StandardScaler.fit: mean and variance of one column (a zero variance scales by 1)
mean_of(xs) == SeqSum(xs) \div Len(xs)

var_of(xs) ==
    LET m == mean_of(xs)
        v == SeqSum([i \in 1..Len(xs) |-> (xs[i] - m) * (xs[i] - m)]) \div Len(xs)
    IN  IF v = 0 THEN 1 ELSE v

\* the fitted preprocessor applied to one row (a function of column names)
transform(p, row) ==
    [num |-> [i \in 1..Len(p.num) |-> row[p.num[i]] - p.mean_[i]],
     cat |-> [i \in 1..Len(p.cat) |-> one_hot(p.categories_[i], row[p.cat[i]])]]

\* the row of a table at position i, as a function of column names
RowOf(X, i) == [c \in Range(X.columns) |-> Cell(X.index[i], c)]

\* Pipeline.fit(X, y): ValueError when a column the transformer names is no
\* column of X, or when X has no rows
fit_preprocessor(p, X) ==
    LET n == Len(X.index)
        col(c) == [i \in 1..n |-> Cell(X.index[i], c)]
    IN  [num |-> p.num, cat |-> p.cat,
         mean_ |-> [i \in 1..Len(p.num) |-> mean_of(col(p.num[i]))],
         var_ |-> [i \in 1..Len(p.num) |-> var_of(col(p.num[i]))],
         categories_ |-> [i \in 1..Len(p.cat) |-> categories_of(Range(col(p.cat[i])))]]

fit(p, X, y) ==
    IF ~((Range(p.num) \cup Range(p.cat)) \subseteq Range(X.columns))
    THEN Raise("ValueError")
    ELSE IF Len(X.index) = 0 THEN Raise("ValueError")
    ELSE CHOOSE fitted \in
           {Return([kind |-> "pipeline", fitted |-> TRUE,
                    num |-> pre.num, cat |-> pre.cat,
                    mean_ |-> pre.mean_, var_ |-> pre.var_,
                    categories_ |-> pre.categories_,
                    regressor |-> [i \in 1..Len(X.index) |->
                        [x |-> transform(pre, RowOf(X, i)), y |-> y[i]]]]) :
              pre \in {fit_preprocessor(p, X)}} : TRUE

\* squared distance of two transformed rows, numeric parts standardized
distance(p, a, b) ==
    SeqSum([i \in 1..Len(p.num) |->
              ((a.num[i] - b.num[i]) * (a.num[i] - b.num[i])) \div p.var_[i]])
    + SeqSum([i \in 1..Len(p.cat) |->
              SeqSum([k \in 1..Len(a.cat[i]) |-> Abs(a.cat[i][k] - b.cat[i][k])])])

\* RandomForestRegressor.predict on one transformed row: the seeded ensemble is
\* a fixed function of the training rows, here the mean target of the nearest ones
regress(p, t) ==
    CHOOSE prediction \in
      {LET near == {i \in 1..Len(d) : \A j \in 1..Len(d) : d[i] <= d[j]}
           pick == [i \in 1..Len(d) |-> IF i \in near THEN p.regressor[i].y ELSE 0]
       IN  SeqSum(pick) \div Cardinality(near) :
         d \in {[i \in 1..Len(p.regressor) |-> distance(p, p.regressor[i].x, t)]}} : TRUE

\* Pipeline.predict(df): df is [columns, rows]; ValueError when a column the
\* pipeline was fit on is missing from df (columns it was not fit on are ignored)
pipeline_predict(p, df) ==
    IF ~((Range(p.num) \cup Range(p.cat)) \subseteq Range(df.columns))
    THEN Raise("ValueError")
    ELSE Return([i \in 1..Len(df.rows) |->
                   CHOOSE v \in {regress(p, t) : t \in {transform(p, df.rows[i])}} : TRUE])

\* ------------------------------------------- train_model.py: main, line 82
\* KFold(5) without shuffling: the positions of the k-th test fold, contiguous,
\* the first n % 5 folds one longer
fold_size(n, k) == (n \div cv) + (IF k <= n % cv THEN 1 ELSE 0)

fold_start(n, k) == 1 + SeqSum([j \in 1..(k - 1) |-> fold_size(n, j)])

test_positions(n, k) == fold_start(n, k)..(fold_start(n, k) + fold_size(n, k) - 1)

\* the rows of a list at the positions in keep, in order
take(s, keep) ==
    LET RECURSIVE go(_)
        go(i) == IF i > Len(s) THEN <<>>
                 ELSE (IF i \in keep THEN <<s[i]>> ELSE <<>>) \o go(i + 1)
    IN  go(1)

NaN == [nan |-> TRUE]

\* the r2 score of predictions against targets, as its two sums of squares
r2_score(y_true, y_pred) ==
    LET n == Len(y_true)
        m == SeqSum(y_true) \div n
    IN  [nan |-> FALSE,
         ss_res |-> SeqSum([i \in 1..n |->
                       ((y_true[i] - y_pred[i]) \div 100) * ((y_true[i] - y_pred[i]) \div 100)]),
         ss_tot |-> SeqSum([i \in 1..n |->
                       ((y_true[i] - m) \div 100) * ((y_true[i] - m) \div 100)])]

\* one fold: fit a clone on the other folds, score it on this one; a fit that
\* raises scores nan (error_score)
fold_score(p, X, y, k) ==
    LET n == Len(X.index)
        test == test_positions(n, k)
        train == (1..n) \ test
        sub(keep) == [columns |-> X.columns, index |-> take(X.index, keep)]
        fitted == fit(p, sub(train), take(y, train))
    IN  IF ~fitted.ok THEN NaN
        ELSE LET Xt == sub(test)
                 pred == pipeline_predict(fitted.value,
                            [columns |-> Xt.columns,
                             rows |-> [i \in 1..Len(Xt.index) |-> RowOf(Xt, i)]])
             IN  IF ~pred.ok THEN NaN ELSE r2_score(take(y, test), pred.value)

\* cross_val_score(pipeline, X, y, cv=5, scoring="r2"): the outcomes it can have.
\* Fewer rows than folds is a ValueError. When every fold's fit raised, the
\* installed scikit-learn either raises too or returns five nan scores.
cross_val_score(p, X, y) ==
    IF Len(X.index) < cv THEN {Raise("ValueError")}
    ELSE UNION {IF \A k \in 1..cv : scores[k].nan
                THEN {Raise("ValueError"), Return(scores)}
                ELSE {Return(scores)} :
                   scores \in {[k \in 1..cv |-> fold_score(p, X, y, k)]}}

\* ----------------------------------------------------- app.py: the schema
\* RookieInput: the fields of a request body, the optional ones defaulted
RookieFields == {"player_name"} \cup Range(ALL_FEATURE_COLS)

field_default(f) == IF f = "C_conference_strength" THEN 5 ELSE 0

RookieInput(body) ==
    [f \in RookieFields |-> IF f \in DOMAIN body THEN body[f] ELSE field_default(f)]

\* the request bodies sent: the documented example (its three fractional
\* values as whole numbers, its zero fields left to their defaults), and a
\* player whose position and team no training row has
Bodies ==
    {[player_name |-> "Cam Ward", position |-> "QB", team |-> "TEN",
      C_conference |-> "ACC", C_team |-> "Miami (FL)", C_season |-> 2024,
      C_passing_TD |-> 36, C_passing_YDS |-> 4313, C_passing_INT |-> 7,
      C_rushing_TD |-> 3, C_rushing_YDS |-> 152, C_fumbles_LOST |-> 2,
      C_passing_ATT |-> 493, C_passing_COMPLETIONS |-> 328, C_passing_PCT |-> 67,
      C_passing_YPA |-> 9, C_rushing_CAR |-> 89, C_rushing_YPC |-> 2,
      C_rushing_LONG |-> 25, C_fumbles_FUM |-> 4, C_conference_strength |-> 8],
     [player_name |-> "New Kicker", position |-> "K", team |-> "DAL",
      C_conference |-> "SEC", C_team |-> "Alabama", C_season |-> 2016]}

Rookies == {RookieInput(b) : b \in Bodies}

\* the lists sent to the batch endpoint: the empty list, and lists of up to
\* MaxBatch records that alternate between two different players
Batches ==
    UNION {{[i \in 1..n |-> IF i % 2 = 1 THEN a ELSE b] :
               n \in 0..MaxBatch, b \in Rookies \ {a}} : a \in Rookies}

\* ------------------------------------------------- app.py: model at startup
None == [kind |-> "None"]
Absent == [kind |-> "absent"]
Unloadable == [kind |-> "unloadable"]

\* joblib.load(MODEL_PATH) on what the path holds: no file, a file that does not
\* unpickle (or cannot be read), or a dumped pipeline
joblib_load(file) ==
    CASE file.kind = "absent" -> Raise("FileNotFoundError")
      [] file.kind = "unloadable" -> Raise("UnpicklingError")
      [] OTHER -> Return(file)

\* ------------------------------------------------- app.py: _predict_single
HTTPException(code, text) ==
    [ok |-> FALSE, error |-> "HTTPException", status_code |-> code, detail |-> text]

\* round(float(prediction), 2): thousandths to hundredths, ties to even
round2(x) ==
    LET q == x \div 10
        r == x % 10
    IN  IF r < 5 THEN q
        ELSE IF r > 5 THEN q + 1
        ELSE IF q % 2 = 0 THEN q ELSE q + 1

_predict_single(m, rookie) ==
    IF m = None
    THEN HTTPException(503, "Model not found at models/model.joblib. Run 'python train_model.py' first.")
    ELSE LET row == [col \in Range(ALL_FEATURE_COLS) |-> rookie[col]]
             df == [columns |-> ALL_FEATURE_COLS, rows |-> <<row>>]
             prediction == pipeline_predict(m, df)
         IN  IF ~prediction.ok THEN prediction
             ELSE Return([player_name |-> rookie["player_name"],
                          position |-> rookie["position"],
                          predicted_fantasy_points |-> round2(prediction.value[1])])

\* ------------------------------------------------------ app.py: endpoints
\* health_check answering from a constant instead of the global
health_check_constant(m) == Return([status |-> "ok", model_loaded |-> TRUE])

health_check(m) == Return([status |-> "ok", model_loaded |-> m # None])

predict(m, rookie) == _predict_single(m, rookie)

\* [_predict_single(r) for r in rookies]: the first exception ends the loop
RECURSIVE predict_batch(_, _)
predict_batch(m, rookies) ==
    IF rookies = <<>> THEN Return(<<>>)
    ELSE LET first == _predict_single(m, Head(rookies))
         IN  IF ~first.ok THEN first
             ELSE LET rest == predict_batch(m, Tail(rookies))
                  IN  IF ~rest.ok THEN rest
                      ELSE Return(<<first.value>> \o rest.value)

\* what the framework sends for a handler's outcome: the returned body with
\* 200, an HTTPException with its status code, any other exception with 500
http_response(outcome) ==
    IF outcome.ok THEN [status |-> 200, body |-> outcome.value]
    ELSE IF outcome.error = "HTTPException"
         THEN [status |-> outcome.status_code, body |-> [detail |-> outcome.detail]]
         ELSE [status |-> 500, body |-> [detail |-> "Internal Server Error"]]

\* ------------------------------------------------------------------ state
VARIABLES
    artifact,      \* what models/model.joblib holds
    svc,           \* the service process: "starting", "running" or "crashed"
    model,         \* app.py's global model
    loads,         \* calls of joblib.load made by the service process
    response,      \* the last request served and its response
    trainPc,       \* where the training run stands
    dataFile,      \* what the run found at DATA_PATH
    X, y,          \* main's prepared table and target
    numeric_cols,  \* main's numeric_cols
    pipeline,      \* main's pipeline
    cv_scores      \* main's cv_scores

service_vars == <<svc, model, loads, response>>
train_vars == <<trainPc, dataFile, X, y, numeric_cols, pipeline, cv_scores>>
vars == <<artifact, svc, model, loads, response, trainPc, dataFile, X, y,
          numeric_cols, pipeline, cv_scores>>

NoTable == [columns |-> <<>>, index |-> <<>>]
Unset == [kind |-> "unset"]
NoResponse == [endpoint |-> "none", request |-> <<>>, status |-> 0, body |-> <<>>]

Init ==
    /\ artifact \in {Absent, Unloadable}
    /\ svc = "starting"
    /\ model = None
    /\ loads = 0
    /\ response = NoResponse
    /\ trainPc = "idle"
    /\ dataFile = NoFile
    /\ X = NoTable
    /\ y = <<>>
    /\ numeric_cols = <<>>
    /\ pipeline = Unset
    /\ cv_scores = <<>>

\* ------------------------------------------------ app.py: module import
\* lines 107-111: the load at import; only FileNotFoundError is caught, any
\* other exception ends the import and with it the process
Startup ==
    /\ svc = "starting"
    /\ loads' = loads + 1
    /\ LET loaded == joblib_load(artifact)
       IN  IF loaded.ok
           THEN svc' = "running" /\ model' = loaded.value
           ELSE IF loaded.error = "FileNotFoundError"
                THEN svc' = "running" /\ model' = None
                ELSE svc' = "crashed" /\ model' = model
    /\ UNCHANGED <<artifact, response, train_vars>>

\* a handler that goes back to the artifact file on every request
Serve_reloading(endpoint, request, outcome) ==
    /\ svc = "running"
    /\ \E sent \in {http_response(outcome)} :
         response' = [endpoint |-> endpoint, request |-> request,
                      status |-> sent.status, body |-> sent.body]
    /\ loads' = loads + 1
    /\ model' = IF joblib_load(artifact).ok THEN joblib_load(artifact).value ELSE None
    /\ UNCHANGED <<artifact, svc, train_vars>>

Serve(endpoint, request, outcome) ==
    /\ svc = "running"
    /\ \E sent \in {http_response(outcome)} :
         response' = [endpoint |-> endpoint, request |-> request,
                      status |-> sent.status, body |-> sent.body]
    /\ UNCHANGED <<artifact, svc, model, loads, train_vars>>

GetHealth == Serve("/", <<>>, health_check(model))

PostPredict == \E rookie \in Rookies : Serve("/predict", <<rookie>>, predict(model, rookie))

PostPredictBatch ==
    \E rookies \in Batches : Serve("/predict/batch", rookies, predict_batch(model, rookies))

\* ------------------------------------------------- train_model.py: main
\* line 72: a run starts, reads the data file and prepares X and y
main_load ==
    /\ trainPc \in {"idle", "done", "failed"}
    /\ \E file \in DataFiles :
         LET prepared == load_and_prepare_data(file)
         IN  /\ dataFile' = file
             /\ IF prepared.ok
                THEN /\ trainPc' = "prepared"
                     /\ X' = prepared.value.X
                     /\ y' = prepared.value.y
                ELSE /\ trainPc' = "failed"
                     /\ X' = NoTable
                     /\ y' = <<>>
    /\ numeric_cols' = <<>>
    /\ pipeline' = Unset
    /\ cv_scores' = <<>>
    /\ UNCHANGED <<artifact, service_vars>>

\* lines 74-78
main_build ==
    /\ trainPc = "prepared"
    /\ numeric_cols' = SelectSeq(X.columns, LAMBDA col : col \notin Range(train_CATEGORICAL_COLS))
    /\ pipeline' = build_pipeline(numeric_cols')
    /\ trainPc' = "built"
    /\ UNCHANGED <<artifact, service_vars, dataFile, X, y, cv_scores>>

\* a run that fits and dumps the pipeline before it cross-validates
main_cross_validate_after_save ==
    /\ trainPc = "built"
    /\ \E scored \in cross_val_score(pipeline, X, y) :
         IF scored.ok
         THEN trainPc' = "validated" /\ cv_scores' = scored.value
         ELSE trainPc' = "failed" /\ cv_scores' = cv_scores
    /\ artifact' = IF fit(pipeline, X, y).ok THEN fit(pipeline, X, y).value ELSE artifact
    /\ UNCHANGED <<service_vars, dataFile, X, y, numeric_cols, pipeline>>

\* lines 80-83
main_cross_validate ==
    /\ trainPc = "built"
    /\ \E scored \in cross_val_score(pipeline, X, y) :
         IF scored.ok
         THEN trainPc' = "validated" /\ cv_scores' = scored.value
         ELSE trainPc' = "failed" /\ cv_scores' = cv_scores
    /\ UNCHANGED <<artifact, service_vars, dataFile, X, y, numeric_cols, pipeline>>

\* lines 85-87
main_fit ==
    /\ trainPc = "validated"
    /\ LET fitted == fit(pipeline, X, y)
       IN  IF fitted.ok
           THEN trainPc' = "fitted" /\ pipeline' = fitted.value
           ELSE trainPc' = "failed" /\ pipeline' = pipeline
    /\ UNCHANGED <<artifact, service_vars, dataFile, X, y, numeric_cols, cv_scores>>

\* lines 89-92
main_save ==
    /\ trainPc = "fitted"
    /\ artifact' = pipeline
    /\ trainPc' = "done"
    /\ UNCHANGED <<service_vars, dataFile, X, y, numeric_cols, pipeline, cv_scores>>

Next ==
    \/ Startup
    \/ GetHealth
    \/ PostPredict
    \/ PostPredictBatch
    \/ main_load
    \/ main_build
    \/ main_cross_validate
    \/ main_fit
    \/ main_save

Spec == Init /\ [][Next]_vars

\* ================================================================ claims

\* C1: while the service holds no model, every answer of the single and of the
\* batch prediction endpoint is a 503, whatever the length of the batch.
C1_NoModelAlways503 ==
    (svc = "running" /\ model = None
        /\ response.endpoint \in {"/predict", "/predict/batch"})
    => response.status = 503

\* C2: with a model loaded, a batch of N records is answered with exactly N
\* results, the i-th being what predict_one returns for the i-th record alone.
C2_BatchIsPointwise ==
    (svc = "running" /\ model # None /\ response.endpoint = "/predict/batch")
    => /\ response.status = 200
       /\ Len(response.body) = Len(response.request)
       /\ \A i \in 1..Len(response.request) :
            LET single == _predict_single(model, response.request[i])
            IN  /\ single.ok
                /\ response.body[i] = single.value
                /\ response.body[i].player_name = response.request[i]["player_name"]
                /\ response.body[i].position = response.request[i]["position"]

\* C3 as stated: the health check answers ok with the model_loaded the artifact
\* file decides, and no failed artifact load ever stops the process.
C3_NoLoadFailureStopsProcess ==
    /\ svc # "crashed"
    /\ response.endpoint = "/" =>
         /\ response.status = 200
         /\ response.body = [status |-> "ok", model_loaded |-> model # None]

\* C3 as amended: in every state of a running service the health check answers
\* 200 and ok with model_loaded telling whether a model is held; the process
\* comes up with no model when the file is absent and with the file's pipeline
\* when it loads; it stays up once running; and it ends at start exactly when the
\* file is present but does not load.
C3_HealthWhileRunning ==
    /\ [](svc = "running" =>
            /\ health_check(model).ok
            /\ health_check(model).value.status = "ok"
            /\ health_check(model).value.model_loaded = (model # None))
    /\ [](response.endpoint = "/" =>
            /\ response.status = 200
            /\ response.body = [status |-> "ok", model_loaded |-> model # None])
    /\ [][(svc = "starting" /\ svc' # "starting") =>
            /\ artifact = Absent => (svc' = "running" /\ model' = None)
            /\ artifact.kind = "pipeline" => (svc' = "running" /\ model' = artifact)
            /\ (svc' = "crashed") <=> (artifact = Unloadable)]_vars
    /\ [][svc = "running" => svc' = "running"]_vars

\* C3 witness: the service runs after a load that found no file, and has
\* answered a health check with model_loaded false.
C3_Witness ==
    /\ svc = "running" /\ model = None /\ loads = 1
    /\ response.endpoint = "/"
    /\ response.body.model_loaded = FALSE

\* C4: the service calls joblib.load once, at start; from then on no request
\* and no step of a training run changes the model it holds, and every health
\* and prediction answer is computed from that model.
C4_LoadedOnceThenFixed ==
    /\ [](loads <= 1)
    /\ [](svc = "starting" <=> loads = 0)
    /\ [][svc # "starting" => (model' = model /\ loads' = loads)]_vars
    /\ [](response.endpoint = "/" => response.body.model_loaded = (model # None))
    /\ [](response.endpoint = "/predict" =>
            LET answer == http_response(_predict_single(model, response.request[1]))
            IN  response.status = answer.status /\ response.body = answer.body)

\* C4 witness: a training run has written an artifact after the service started
\* without one, and the service still answers a prediction with 503.
C4_Witness ==
    /\ svc = "running" /\ model = None
    /\ artifact.kind = "pipeline"
    /\ response.endpoint = "/predict"
    /\ response.status = 503

\* C5: the prepared feature table has no rookie-season column, no identifier
\* column and not the target, and its columns are exactly the feature contract.
C5_PreparedColumnsAreContract ==
    X # NoTable =>
      /\ \A c \in Range(X.columns) : ~startswith_R_(c)
      /\ \A c \in Range(X.columns) : c \notin Range(COLUMNS_TO_DROP)
      /\ TARGET \notin Range(X.columns)
      /\ Range(X.columns) = Range(ALL_FEATURE_COLS)

\* C6: whenever training has fit the pipeline, the features it was fit on, the
\* categorical list followed by the numeric columns, are ALL_FEATURE_COLS in
\* that order.
C6_FitColumnsAreServedColumns ==
    (trainPc \in {"fitted", "done"}) => pipeline.cat \o pipeline.num = ALL_FEATURE_COLS

\* C7: a run whose data file is missing, or lacks an expected column, never
\* reaches the end of training with an artifact.
C7_MissingColumnIsFatal ==
    (trainPc \in {"fitted", "done"}) =>
      /\ dataFile # NoFile
      /\ ({TARGET} \cup Range(COLUMNS_TO_DROP) \cup Range(ALL_FEATURE_COLS))
            \subseteq Range(dataFile.columns)

\* C8: with a model loaded, a single prediction never raises and returns a
\* number, and a categorical value unseen in training is encoded as all zeros.
C8_PredictNeverRaises ==
    (svc = "running" /\ model # None /\ response.endpoint = "/predict") =>
      /\ response.status = 200
      /\ response.body.predicted_fantasy_points \in Int
      /\ \A i \in 1..Len(model.cat) :
           LET v == response.request[1][model.cat[i]]
           IN  v \notin Range(model.categories_[i]) =>
                 \A k \in 1..(Len(model.categories_[i]) - 1) :
                    one_hot(model.categories_[i], v)[k] = 0

\* C9: once a run has ended, the artifact is what fitting the pipeline on all of
\* the prepared data gives, whatever the cross-validation step did.
C9_CrossValidationChangesNothing ==
    (trainPc \in {"done", "failed"} /\ pipeline # Unset) =>
      LET unfitted == build_pipeline(numeric_cols)
          fitted == fit(unfitted, X, y)
      IN  fitted.ok => artifact = fitted.value

\* C10: the artifact file changes only in the save step, which a run takes from
\* a pipeline fit after preparation and cross-validation and which ends the run
\* as done; a step that fails a run leaves the file as it was.
C10_ArtifactWrittenLast ==
    /\ [][artifact' # artifact =>
            /\ trainPc = "fitted" /\ trainPc' = "done"
            /\ X # NoTable /\ cv_scores # <<>>
            /\ pipeline.fitted
            /\ artifact' = pipeline]_vars
    /\ [][trainPc' = "failed" => artifact' = artifact]_vars
    /\ [](artifact.kind = "pipeline" => artifact.fitted)

\* C10 witness: a run has failed after an earlier run saved an artifact, and
\* the file still holds a fitted pipeline.
C10_Witness ==
    /\ trainPc = "failed"
    /\ artifact.kind = "pipeline"
    /\ artifact.fitted

====
